---------------------------- MODULE Spec2Model ----------------------------
(***************************************************************************)
(* Model of gen_adf_doc.py: the dependency resolver (topological_sort,     *)
(* sort_activities_by_dependency), the activity renderer                   *)
(* (generate_activity_html) and the typeProperties view                    *)
(* (convert_to_nested_table_html).                                         *)
(*                                                                         *)
(* A parsed JSON value is a tagged record; a Python dict keeps its keys in *)
(* insertion order (keys[i] maps to items[i]).  An HTML string is modelled *)
(* as the sequence of the pieces the code concatenates: each literal piece *)
(* of an f-string and each interpolated value is one token.                *)
(***************************************************************************)
EXTENDS Integers, Sequences, FiniteSets, TLC

VARIABLES doc, stack, ts, result, error

vars == <<doc, stack, ts, result, error>>

-----------------------------------------------------------------------------
(* Bounds of the model *)

\* longest activity list of a flat scope
MaxActs == 3
\* most dependsOn entries, in total, of a flat scope
MaxEdges == 3
\* deepest nesting of container activities in a document
MaxDepth == 2

-----------------------------------------------------------------------------
(* JSON values as json.load returns them *)

JStr(x) == [t |-> "str", s |-> x]
JInt(x) == [t |-> "int", n |-> x]
JBool(x) == [t |-> "bool", b |-> x]
JNull == [t |-> "null"]
JList(xs) == [t |-> "list", items |-> xs]
JDict(ks, xs) == [t |-> "dict", keys |-> ks, items |-> xs]

\* Python's None, what dict.get returns for a missing key
None == JNull

\* isinstance(v, dict) / isinstance(v, list)
IsDict(v) == v.t = "dict"

IsList(v) == v.t = "list"

\* key in obj, for obj a dict
Has(obj, key) == \E i \in 1..Len(obj.keys) : obj.keys[i] = key

\* obj[key], for obj a dict holding key
Get(obj, key) == obj.items[CHOOSE i \in 1..Len(obj.keys) : obj.keys[i] = key]

\* obj.get(key, default)
GetOr(obj, key, default) == IF Has(obj, key) THEN Get(obj, key) ELSE default

\* the key a string value is hashed under; every name of the drawn documents
\* is a JSON string
Key(v) == v.s

\* str(v), as an f-string interpolates a scalar
Text(v) ==
    CASE v.t = "str" -> v.s
      [] v.t = "int" -> ToString(v.n)
      [] v.t = "bool" -> (IF v.b THEN "True" ELSE "False")
      [] v.t = "null" -> "None"
      [] OTHER -> "<repr>"

\* bool(v), as `if v:` tests it
Truthy(v) ==
    CASE v.t = "str" -> v.s # ""
      [] v.t = "int" -> v.n # 0
      [] v.t = "bool" -> v.b
      [] v.t = "null" -> FALSE
      [] v.t = "list" -> Len(v.items) > 0
      [] v.t = "dict" -> Len(v.keys) > 0

RECURSIVE Flatten(_)
Flatten(ss) == IF ss = <<>> THEN <<>> ELSE Head(ss) \o Flatten(Tail(ss))

Range(s) == {s[i] : i \in 1..Len(s)}

-----------------------------------------------------------------------------
(* topological_sort: its locals, one operator per step *)

\* in_degree = {activity["name"]: 0 for activity in activities}: a dict keeps a
\* repeated key at its first position
RECURSIVE DictKeys(_)
DictKeys(names) ==
    IF names = <<>> THEN <<>>
    ELSE LET init == DictKeys(SubSeq(names, 1, Len(names) - 1))
             last == names[Len(names)]
         IN  IF last \in Range(init) THEN init ELSE Append(init, last)

\* graph[k], a defaultdict(list)
GraphGet(g, k) == IF k \in DOMAIN g THEN g[k] ELSE <<>>

\* graph[k].append(x)
GraphAppend(g, k, x) ==
    [kk \in DOMAIN g \cup {k} |-> IF kk = k THEN Append(GraphGet(g, k), x) ELSE g[kk]]

\* the (dependency["activity"], activity["name"]) pairs in the order the two
\* nested loops visit them
ActEdges(activity) ==
    IF Has(activity, "dependsOn")
    THEN LET deps == Get(activity, "dependsOn").items
         IN  [k \in 1..Len(deps) |->
                 <<Key(Get(deps[k], "activity")), Key(Get(activity, "name"))>>]
    ELSE <<>>

Edges(activities) == Flatten([i \in 1..Len(activities) |-> ActEdges(activities[i])])

\* graph[dependency["activity"]].append(activity["name"]) for every pair
RECURSIVE BuildGraph(_, _)
BuildGraph(g, edges) ==
    IF edges = <<>> THEN g
    ELSE BuildGraph(GraphAppend(g, Head(edges)[1], Head(edges)[2]), Tail(edges))

\* mutant: a dependency on a name that is no activity is not counted
RECURSIVE BuildInDegree_KnownOnly(_, _)
BuildInDegree_KnownOnly(d, edges) ==
    IF edges = <<>> THEN d
    ELSE BuildInDegree_KnownOnly(
             IF Head(edges)[1] \in DOMAIN d
             THEN [d EXCEPT ![Head(edges)[2]] = @ + 1] ELSE d,
             Tail(edges))

\* mutant: a repeated dependsOn entry is counted once
BuildInDegree_OncePerName(d, edges) ==
    [k \in DOMAIN d |-> Cardinality({e \in Range(edges) : e[2] = k})]

\* in_degree[activity["name"]] += 1 for every pair
RECURSIVE BuildInDegree(_, _)
BuildInDegree(d, edges) ==
    IF edges = <<>> THEN d
    ELSE BuildInDegree([d EXCEPT ![Head(edges)[2]] = @ + 1], Tail(edges))

TSIdle ==
    [pc |-> "idle", activities |-> <<>>, graph |-> [k \in {} |-> <<>>],
     keys |-> <<>>, in_degree |-> [k \in {} |-> 0], queue |-> <<>>,
     sorted_activities |-> <<>>, node |-> "", j |-> 0]

\* mutant: graph is created once and shared by every call
TSCall_SharedGraph(activities) ==
    [TSIdle EXCEPT !.pc = "build", !.activities = activities, !.graph = ts.graph]

\* the call topological_sort(activities): graph = defaultdict(list)
TSCall(activities) == [TSIdle EXCEPT !.pc = "build", !.activities = activities]

\* in_degree and the two loops that fill graph and in_degree
TSBuild(t) ==
    LET names == [i \in 1..Len(t.activities) |-> Key(Get(t.activities[i], "name"))]
        edges == Edges(t.activities)
    IN  [t EXCEPT !.pc = "seed",
                  !.keys = DictKeys(names),
                  !.in_degree = BuildInDegree([k \in Range(names) |-> 0], edges),
                  !.graph = BuildGraph(t.graph, edges)]

\* mutant: only the first ready activity is seeded
SeedQueue_First(keys, in_degree) ==
    LET ready == SelectSeq(keys, LAMBDA k : in_degree[k] = 0)
    IN  IF ready = <<>> THEN <<>> ELSE <<ready[1]>>

\* mutant: an activity with one unmet dependency is seeded too
SeedQueue_AtMostOne(keys, in_degree) == SelectSeq(keys, LAMBDA k : in_degree[k] <= 1)

\* queue = deque([a for a in in_degree if in_degree[a] == 0])
SeedQueue(keys, in_degree) == SelectSeq(keys, LAMBDA k : in_degree[k] = 0)

TSSeed(t) ==
    [t EXCEPT !.pc = "loop",
              !.queue = SeedQueue(t.keys, t.in_degree),
              !.sorted_activities = <<>>]

\* mutant: queue.pop() takes the newest entry, not the oldest
TSPop_Lifo(t) ==
    IF t.queue = <<>>
    THEN [t EXCEPT !.pc = "return"]
    ELSE LET node == t.queue[Len(t.queue)]
         IN  [t EXCEPT !.pc = "relax",
                       !.node = node,
                       !.j = 1,
                       !.queue = SubSeq(t.queue, 1, Len(t.queue) - 1),
                       !.sorted_activities = Append(t.sorted_activities, node),
                       !.graph = [kk \in DOMAIN t.graph \cup {node} |->
                                     GraphGet(t.graph, kk)]]

\* while queue: node = queue.popleft(); sorted_activities.append(node); the
\* for loop over graph[node] starts (a defaultdict creates graph[node])
TSPop(t) ==
    IF t.queue = <<>>
    THEN [t EXCEPT !.pc = "return"]
    ELSE LET node == Head(t.queue)
         IN  [t EXCEPT !.pc = "relax",
                       !.node = node,
                       !.j = 1,
                       !.queue = Tail(t.queue),
                       !.sorted_activities = Append(t.sorted_activities, node),
                       !.graph = [kk \in DOMAIN t.graph \cup {node} |->
                                     GraphGet(t.graph, kk)]]

\* mutant: the neighbor is enqueued at every decrement, not only at zero
TSRelax_NoZeroTest(t) ==
    IF t.j > Len(t.graph[t.node])
    THEN [t EXCEPT !.pc = "loop"]
    ELSE LET neighbor == t.graph[t.node][t.j]
             d == t.in_degree[neighbor] - 1
         IN  IF neighbor \notin DOMAIN t.in_degree
             THEN [t EXCEPT !.pc = "KeyError"]
             ELSE [t EXCEPT !.j = t.j + 1,
                            !.in_degree = [t.in_degree EXCEPT ![neighbor] = d],
                            !.queue = Append(t.queue, neighbor)]

\* one pass of: for neighbor in graph[node]: in_degree[neighbor] -= 1; if
\* in_degree[neighbor] == 0: queue.append(neighbor).  in_degree is a plain
\* dict: a neighbor that is no key of it raises KeyError
TSRelax(t) ==
    IF t.j > Len(t.graph[t.node])
    THEN [t EXCEPT !.pc = "loop"]
    ELSE LET neighbor == t.graph[t.node][t.j]
             d == t.in_degree[neighbor] - 1
         IN  IF neighbor \notin DOMAIN t.in_degree
             THEN [t EXCEPT !.pc = "KeyError"]
             ELSE [t EXCEPT !.j = t.j + 1,
                            !.in_degree = [t.in_degree EXCEPT ![neighbor] = d],
                            !.queue = IF d = 0 THEN Append(t.queue, neighbor)
                                      ELSE t.queue]

TSStep(t) ==
    CASE t.pc = "build" -> TSBuild(t)
      [] t.pc = "seed" -> TSSeed(t)
      [] t.pc = "loop" -> TSPop(t)
      [] t.pc = "relax" -> TSRelax(t)

RECURSIVE TSRun(_)
TSRun(t) == IF t.pc \in {"return", "KeyError"} THEN t ELSE TSRun(TSStep(t))

\* the value topological_sort returns: the names in emission order (those
\* emitted so far, if it raises)
topological_sort(activities) == TSRun(TSCall(activities)).sorted_activities

\* activity_dict[name]: a repeated name maps to its last activity
ActivityDict(activities, name) ==
    activities[CHOOSE i \in 1..Len(activities) :
                  /\ Key(Get(activities[i], "name")) = name
                  /\ \A k \in (i + 1)..Len(activities) :
                        Key(Get(activities[k], "name")) # name]

\* sort_activities_by_dependency, given the names topological_sort returned
SortedActivities(activities, names) ==
    [k \in 1..Len(names) |-> ActivityDict(activities, names[k])]

sort_activities_by_dependency(activities) ==
    SortedActivities(activities, topological_sort(activities))

-----------------------------------------------------------------------------
(* convert_to_nested_table_html *)

RECURSIVE convert_to_nested_table_html(_)
convert_to_nested_table_html(obj) ==
    LET DictRow(i) ==
            LET value == obj.items[i]
            IN  <<"<tr>", "<td>", obj.keys[i], "</td>">>
                \o (IF IsDict(value) \/ IsList(value)
                    THEN <<"<td>">> \o convert_to_nested_table_html(value) \o <<"</td>">>
                    ELSE <<"<td>", Text(value), "</td>">>)
                \o <<"</tr>">>
        ListRow(i) ==
            <<"<tr><td>", "Item " \o ToString(i), "</td><td>">>
            \o convert_to_nested_table_html(obj.items[i])
            \o <<"</td></tr>">>
        rows ==
            CASE IsDict(obj) -> Flatten([i \in 1..Len(obj.keys) |-> DictRow(i)])
              [] IsList(obj) -> Flatten([i \in 1..Len(obj.items) |-> ListRow(i)])
              [] OTHER -> <<>>
    IN  <<"<table class='nested-table'>">> \o rows \o <<"</table>">>

-----------------------------------------------------------------------------
(* generate_activity_html: what one pass of its for loop appends *)

ContainerTypes == {"IfCondition", "ForEach", "Switch"}

\* ", ".join(xs), xs a list of strings
RECURSIVE Join(_)
Join(xs) ==
    IF xs = <<>> THEN ""
    ELSE IF Len(xs) = 1 THEN Key(xs[1])
    ELSE Key(xs[1]) \o ", " \o Join(Tail(xs))

\* the <li> of one dependency
DependencyHtml(dependency) ==
    <<"<li>Activity: ", Text(GetOr(dependency, "activity", None)), " (Conditions: ",
      Join(GetOr(dependency, "dependencyConditions", JList(<<>>)).items), ")</li>">>

\* pd.DataFrame(user_properties).to_html(index=False): a row per record, a cell
\* per value
DataFrameToHtml(user_properties) ==
    Flatten([i \in 1..Len(user_properties.items) |->
                <<"<tr>">>
                \o [k \in 1..Len(user_properties.items[i].items) |->
                       Text(user_properties.items[i].items[k])]
                \o <<"</tr>">>])

\* the header of an activity, then its Depends On, User Properties and Type
\* Properties rows, each only if the field is truthy
ActivityHtml(activity) ==
    LET activity_name == GetOr(activity, "name", None)
        activity_description == GetOr(activity, "description", None)
        activity_type == GetOr(activity, "type", None)
        depends_on == GetOr(activity, "dependsOn", None)
        user_properties == GetOr(activity, "userProperties", None)
        type_properties == GetOr(activity, "typeProperties", None)
    IN  <<"<details><summary>", Text(activity_name), Text(activity_description),
          "Type", Text(activity_type)>>
        \o (IF Truthy(depends_on)
            THEN <<"<tr><td>Depends On</td><td><ul>">>
                 \o Flatten([k \in 1..Len(depends_on.items) |->
                                DependencyHtml(depends_on.items[k])])
                 \o <<"</ul></td></tr>">>
            ELSE <<>>)
        \o (IF Truthy(user_properties)
            THEN <<"<tr><td>User Properties</td><td>">>
                 \o DataFrameToHtml(user_properties) \o <<"</td></tr>">>
            ELSE <<>>)
        \o (IF Truthy(type_properties)
            THEN <<"<tr><td>Type Properties</td><td>">>
                 \o convert_to_nested_table_html(type_properties) \o <<"</td></tr>">>
            ELSE <<>>)

\* mutant: whatever its type, an activity whose typeProperties is a mapping is
\* taken for a container
IsContainer_AnyType(activity) == IsDict(GetOr(activity, "typeProperties", None))

\* activity_type in ["IfCondition", "ForEach", "Switch"]
IsContainer(activity) ==
    LET activity_type == GetOr(activity, "type", None)
    IN  activity_type.t = "str" /\ activity_type.s \in ContainerTypes

\* `key in v` raises TypeError unless v is a dict, a list or a string
CanContain(v) == v.t \in {"dict", "list", "str"}

\* key in v; typeProperties is a mapping or absent in every drawn document
In(key, v) ==
    CASE v.t = "dict" -> Has(v, key)
      [] v.t = "list" -> JStr(key) \in Range(v.items)
      [] OTHER -> FALSE

-----------------------------------------------------------------------------
(* The call stack of generate_activity_html *)

\* the frame of generate_activity_html(activities) as it is entered
Frame(activities) ==
    [pc |-> "enter", activities |-> activities, sorted_activities |-> <<>>,
     i |-> 0, c |-> 0, html_content |-> <<>>]

Top == stack[Len(stack)]

SetTop(f) == [stack EXCEPT ![Len(stack)] = f]

\* the activity the for loop of the top frame is at
Current == Top.sorted_activities[Top.i]

CurrentTypeProperties == GetOr(Current, "typeProperties", None)

\* an exception no frame catches: every frame is unwound
Raise(e) ==
    /\ error' = e
    /\ stack' = <<>>
    /\ UNCHANGED <<doc, ts, result>>

\* html_content += label; html_content += generate_activity_html(activities):
\* the callee's frame is pushed and the caller resumes at pc
CallNested(label, activities, pc) ==
    /\ stack' = Append(SetTop([Top EXCEPT !.pc = pc,
                                          !.html_content = @ \o label]),
                       Frame(activities))
    /\ UNCHANGED <<doc, ts, result, error>>

\* one of the three `if "<key>" in type_properties:` blocks
Branch(key, label, pc) ==
    IF ~CanContain(CurrentTypeProperties)
    THEN Raise("TypeError")
    ELSE IF In(key, CurrentTypeProperties)
    THEN CallNested(<<label>>, Get(CurrentTypeProperties, key).items, pc)
    ELSE /\ stack' = SetTop([Top EXCEPT !.pc = pc])
         /\ UNCHANGED <<doc, ts, result, error>>

\* sorted_activities = sort_activities_by_dependency(activities): the resolver
\* is entered
GAH_Enter ==
    /\ stack # <<>>
    /\ Top.pc = "enter"
    /\ ts' = TSCall(Top.activities)
    /\ stack' = SetTop([Top EXCEPT !.pc = "sort"])
    /\ UNCHANGED <<doc, result, error>>

TS_Build ==
    /\ ts.pc = "build"
    /\ ts' = TSBuild(ts)
    /\ UNCHANGED <<doc, stack, result, error>>

TS_Seed ==
    /\ ts.pc = "seed"
    /\ ts' = TSSeed(ts)
    /\ UNCHANGED <<doc, stack, result, error>>

TS_Pop ==
    /\ ts.pc = "loop"
    /\ ts' = TSPop(ts)
    /\ UNCHANGED <<doc, stack, result, error>>

TS_Relax ==
    /\ ts.pc = "relax"
    /\ IF TSRelax(ts).pc = "KeyError"
       THEN Raise("KeyError")
       ELSE /\ ts' = TSRelax(ts)
            /\ UNCHANGED <<doc, stack, result, error>>

\* return sorted_activities, through sort_activities_by_dependency, into the
\* caller's sorted_activities; html_content = ""
TS_Return ==
    /\ ts.pc = "return"
    /\ stack' = SetTop([Top EXCEPT
                           !.pc = "for",
                           !.sorted_activities =
                               SortedActivities(Top.activities, ts.sorted_activities),
                           !.i = 1,
                           !.html_content = <<>>])
    /\ ts' = [ts EXCEPT !.pc = "idle"]
    /\ UNCHANGED <<doc, result, error>>

\* the next activity of the for loop: its header and rows
GAH_Visit ==
    /\ stack # <<>>
    /\ Top.pc = "for"
    /\ Top.i <= Len(Top.sorted_activities)
    /\ stack' = SetTop([Top EXCEPT
                           !.pc = IF IsContainer(Current) THEN "ifTrue" ELSE "close",
                           !.html_content = @ \o ActivityHtml(Current)])
    /\ UNCHANGED <<doc, ts, result, error>>

GAH_IfTrue ==
    /\ stack # <<>>
    /\ Top.pc = "ifTrue"
    /\ Branch("ifTrueActivities", "<tr><td>If True Activities</td><td>", "ifFalse")

GAH_IfFalse ==
    /\ stack # <<>>
    /\ Top.pc = "ifFalse"
    /\ Branch("ifFalseActivities", "<tr><td>If False Activities</td><td>", "activities")

GAH_Activities ==
    /\ stack # <<>>
    /\ Top.pc = "activities"
    /\ Branch("activities", "<tr><td>Activities</td><td>", "cases")

\* if "cases" in type_properties: the next case of the for loop over them
GAH_Cases ==
    /\ stack # <<>>
    /\ Top.pc = "cases"
    /\ IF ~CanContain(CurrentTypeProperties)
       THEN Raise("TypeError")
       ELSE IF In("cases", CurrentTypeProperties)
               /\ Top.c < Len(Get(CurrentTypeProperties, "cases").items)
       THEN LET case == Get(CurrentTypeProperties, "cases").items[Top.c + 1]
            IN  /\ stack' =
                       Append(SetTop([Top EXCEPT
                                         !.c = @ + 1,
                                         !.html_content =
                                             @ \o <<"<tr><td>Case: ",
                                                    Text(GetOr(case, "value", None)),
                                                    "</td><td>">>]),
                              Frame(GetOr(case, "activities", JList(<<>>)).items))
                /\ UNCHANGED <<doc, ts, result, error>>
       ELSE /\ stack' = SetTop([Top EXCEPT !.pc = "close", !.c = 0])
            /\ UNCHANGED <<doc, ts, result, error>>

\* html_content += "</table></details>", and on to the next activity
GAH_Close ==
    /\ stack # <<>>
    /\ Top.pc = "close"
    /\ stack' = SetTop([Top EXCEPT !.pc = "for",
                                   !.i = @ + 1,
                                   !.html_content = @ \o <<"</table></details>">>])
    /\ UNCHANGED <<doc, ts, result, error>>

\* return html_content: to the caller, which appends it and "</td></tr>", or
\* out of the outermost call
GAH_Return ==
    /\ stack # <<>>
    /\ Top.pc = "for"
    /\ Top.i > Len(Top.sorted_activities)
    /\ IF Len(stack) = 1
       THEN /\ result' = Top.html_content
            /\ stack' = <<>>
       ELSE LET caller == stack[Len(stack) - 1]
            IN  /\ stack' = [SubSeq(stack, 1, Len(stack) - 1) EXCEPT
                                ![Len(stack) - 1] =
                                    [caller EXCEPT
                                        !.html_content =
                                            @ \o Top.html_content \o <<"</td></tr>">>]]
                /\ UNCHANGED result
    /\ UNCHANGED <<doc, ts, error>>

-----------------------------------------------------------------------------
(* The documents drawn: flat scopes with every dependency structure within   *)
(* the bounds, and documents whose root scope holds a container activity.    *)
(* The code compares names only for equality, so the activity at position i  *)
(* of a flat scope is given the i-th name of NameOrder; "X" names no         *)
(* activity.                                                                 *)

NameOrder == <<"C", "A", "B", "D", "E", "F">>

Dangling == "X"

\* a dict of the fields that are present: <<key, value, present>>
MkDict(fields) ==
    LET sel == SelectSeq(fields, LAMBDA f : f[3])
    IN  JDict([i \in 1..Len(sel) |-> sel[i][1]], [i \in 1..Len(sel) |-> sel[i][2]])

DependsOn(names) ==
    JList([k \in 1..Len(names) |->
              JDict(<<"activity", "dependencyConditions">>,
                    <<JStr(names[k]), JList(<<JStr("Succeeded")>>)>>)])

UserProperties ==
    JList(<<JDict(<<"name", "value">>, <<JStr("Source"), JStr("src")>>)>>)

\* an activity: deps = <<>> with hasDeps = FALSE leaves dependsOn out
Activity(name, type, hasDesc, hasDeps, deps, hasUser, hasTp, tp) ==
    MkDict(<< <<"name", JStr(name), TRUE>>,
              <<"description", JStr("about " \o name), hasDesc>>,
              <<"type", JStr(type), TRUE>>,
              <<"dependsOn", DependsOn(deps), hasDeps>>,
              <<"userProperties", UserProperties, hasUser>>,
              <<"typeProperties", tp, hasTp>> >>)

Leaf(name, deps) == Activity(name, "Copy", FALSE, deps # <<>>, deps, FALSE, FALSE, JNull)

SeqsUpTo(S, e) == UNION {[1..k -> S] : k \in 0..e}

\* the dependsOn lists of activities i..n, Len of them all together <= e
RECURSIVE DepAssign(_, _, _)
DepAssign(i, n, e) ==
    IF i > n THEN {<<>>}
    ELSE UNION {{<<s>> \o rest : rest \in DepAssign(i + 1, n, e - Len(s))} :
                   s \in SeqsUpTo({NameOrder[k] : k \in 1..n} \cup {Dangling}, e)}

\* the flat scope of n activities with the dependsOn lists d
FlatScope(n, d) == [i \in 1..n |-> Leaf(NameOrder[i], d[i])]

\* doc is a flat scope within the bounds
FlatDoc(d0) ==
    \E n \in 0..MaxActs : \E d \in DepAssign(1, n, MaxEdges) : d0 = FlatScope(n, d)

\* the nested scopes of leaves: empty, one activity, a list to be reordered, a
\* cycle, a dangling dependency
LeafScopes ==
    { <<>>,
      <<Leaf("C", <<>>)>>,
      <<Leaf("C", <<"A">>), Leaf("A", <<>>)>>,
      <<Leaf("C", <<"A">>), Leaf("A", <<"C">>)>>,
      <<Leaf("C", <<Dangling>>), Leaf("A", <<>>)>> }

Scalars ==
    <<"waitTimeInSeconds", "isSequential", "items">>

ScalarValues ==
    <<JInt(5), JBool(TRUE), JList(<<JStr("a"), JInt(1)>>)>>

\* typeProperties holding one nested list
OneChild(s) ==
    { JDict(<<"ifTrueActivities">>, <<JList(s)>>),
      JDict(<<"isSequential", "activities">>, <<JBool(FALSE), JList(s)>>),
      JDict(<<"cases">>,
            <<JList(<<JDict(<<"value", "activities">>, <<JStr("x"), JList(s)>>)>>)>>) }

\* typeProperties holding two nested lists
TwoChildren(s1, s2) ==
    { JDict(<<"expression", "ifTrueActivities", "ifFalseActivities">>,
            <<JDict(<<"value", "type">>, <<JStr("@equals(1,1)"), JStr("Expression")>>),
              JList(s1), JList(s2)>>),
      JDict(<<"on", "cases", "activities">>,
            <<JStr("@pipeline().parameters.p"),
              JList(<<JDict(<<"value", "activities">>, <<JStr("x"), JList(s1)>>),
                      JDict(<<"value">>, <<JStr("y")>>)>>),
              JList(s2)>>) }

\* typeProperties holding no nested list
NoChild == { JDict(<<>>, <<>>), JDict(Scalars, ScalarValues) }

\* scopes of one activity nested d deep, each level holding one nested list
RECURSIVE Nest(_)
Nest(d) ==
    IF d = 0 THEN LeafScopes
    ELSE { <<Activity("N", type, FALSE, FALSE, <<>>, FALSE, TRUE, tp)>> :
              type \in {"ForEach", "Copy"},
              tp \in UNION {OneChild(s) : s \in Nest(d - 1)} }

\* the root scopes around a container K: alone, beside a leaf L, depending on
\* L, in a cycle with L, after L, on a missing name, on itself, beside a cycle
Root(K(_, _), i) ==
    CASE i = 0 -> <<K(FALSE, <<>>)>>
      [] i = 1 -> <<K(TRUE, <<>>), Leaf("L", <<>>)>>
      [] i = 2 -> <<K(TRUE, <<"L">>), Leaf("L", <<>>)>>
      [] i = 3 -> <<K(TRUE, <<"L">>), Leaf("L", <<"K">>)>>
      [] i = 4 -> <<Leaf("L", <<"K">>), K(FALSE, <<>>)>>
      [] i = 5 -> <<K(TRUE, <<Dangling>>)>>
      [] i = 6 -> <<K(TRUE, <<"K">>)>>
      [] i = 7 -> <<K(FALSE, <<>>), Leaf("L", <<"L">>)>>

Types == ContainerTypes \cup {"Copy"}

\* every type, every combination of optional fields, every root scope, over
\* typeProperties with at most one nested scope of leaves
ShallowDoc(d0) ==
    \E type \in Types, hasDesc \in BOOLEAN, hasUser \in BOOLEAN, hasTp \in BOOLEAN :
        \E tp \in NoChild \cup UNION {OneChild(s) : s \in LeafScopes} :
            \E i \in 0..7 :
                d0 = Root(LAMBDA hasDeps, deps :
                              Activity("K", type, hasDesc, hasDeps, deps, hasUser, hasTp, tp),
                          i)

\* every type and every root scope, over typeProperties with two nested
\* scopes of leaves
SiblingDoc(d0) ==
    \E type \in Types :
        \E tp \in UNION {TwoChildren(s1, s2) : s1 \in LeafScopes, s2 \in LeafScopes} :
            \E i \in 0..7 :
                d0 = Root(LAMBDA hasDeps, deps :
                              Activity("K", type, TRUE, hasDeps, deps, FALSE, TRUE, tp), i)

\* containers nested up to MaxDepth deep
DeepDoc(d0) ==
    \E tp \in UNION {OneChild(s) : s \in UNION {Nest(d) : d \in 1..(MaxDepth - 1)}} :
        d0 = Root(LAMBDA hasDeps, deps :
                      Activity("K", "IfCondition", TRUE, hasDeps, deps, FALSE, TRUE, tp), 1)

-----------------------------------------------------------------------------
(* The program: generate_activity_html(doc) *)

Init ==
    /\ FlatDoc(doc) \/ ShallowDoc(doc) \/ SiblingDoc(doc) \/ DeepDoc(doc)
    /\ stack = <<Frame(doc)>>
    /\ ts = TSIdle
    /\ result = <<>>
    /\ error = "none"

Next ==
    \/ GAH_Enter
    \/ TS_Build
    \/ TS_Seed
    \/ TS_Pop
    \/ TS_Relax
    \/ TS_Return
    \/ GAH_Visit
    \/ GAH_IfTrue
    \/ GAH_IfFalse
    \/ GAH_Activities
    \/ GAH_Cases
    \/ GAH_Close
    \/ GAH_Return

Spec == Init /\ [][Next]_vars

\* the interpreter runs the one thread until it returns or raises
FairSpec == Spec /\ WF_vars(Next)

-----------------------------------------------------------------------------
(* The vocabulary of the claims about one scope S (a list of activities) *)

NamesOf(S) == [i \in 1..Len(S) |-> Key(Get(S[i], "name"))]

NameSet(S) == Range(NamesOf(S))

UniqueNames(S) == \A i, k \in 1..Len(S) : NamesOf(S)[i] = NamesOf(S)[k] => i = k

\* the names the dependsOn entries of an activity give, in order
DepSeq(activity) ==
    IF Has(activity, "dependsOn")
    THEN LET deps == Get(activity, "dependsOn").items
         IN  [k \in 1..Len(deps) |-> Key(Get(deps[k], "activity"))]
    ELSE <<>>

\* the names the activity called n depends on
DepSet(S, n) == UNION {Range(DepSeq(S[i])) : i \in {k \in 1..Len(S) : NamesOf(S)[k] = n}}

\* those of them that name an activity of S
DepsIn(S, n) == DepSet(S, n) \cap NameSet(S)

\* n has a dependsOn entry that names no activity of S
IsDangling(S, n) == ~(DepSet(S, n) \subseteq NameSet(S))

NoDangling(S) == \A n \in NameSet(S) : ~IsDangling(S, n)

RECURSIVE UpClosure(_, _)
UpClosure(S, X) ==
    LET Y == X \cup UNION {DepsIn(S, n) : n \in X}
    IN  IF Y = X THEN X ELSE UpClosure(S, Y)

\* the activities n depends on, directly or transitively
Ancestors(S, n) == UpClosure(S, DepsIn(S, n))

OnCycle(S, n) == n \in Ancestors(S, n)

Acyclic(S) == \A n \in NameSet(S) : ~OnCycle(S, n)

\* from cur, dependencies lead through every activity of C not yet visited,
\* each once, and then back to first
RECURSIVE ClosesCycle(_, _, _, _, _)
ClosesCycle(S, C, first, cur, visited) ==
    IF visited = C THEN first \in DepsIn(S, cur)
    ELSE \E next \in (DepsIn(S, cur) \cap C) \ visited :
             ClosesCycle(S, C, first, next, visited \cup {next})

\* the activities of C form one dependency cycle: each depends on the next
IsCycle(S, C) ==
    /\ C # {}
    /\ C \subseteq NameSet(S)
    /\ LET first == CHOOSE x \in C : TRUE
       IN  ClosesCycle(S, C, first, first, {first})

\* S with the activities of C removed
Remove(S, C) == SelectSeq(S, LAMBDA a : Key(Get(a, "name")) \notin C)

\* out holds x, and every x in it comes after every u in it
Present(out, x) == x \in Range(out)

Before(out, u, x) ==
    \A i, k \in 1..Len(out) : (out[i] = u /\ out[k] = x) => i < k

\* the resolver has finished a scope: S is its input, Out its returned order
Resolved == ts.pc = "return"

Scope == ts.activities

Order == ts.sorted_activities

-----------------------------------------------------------------------------
(* Claims about the dependency resolver *)

\* C1 as stated: in the order returned for an acyclic scope with unique names,
\* every activity A and every activity U of the scope that A depends on are
\* both placed, U before A.
C1_Original ==
    (Resolved /\ UniqueNames(Scope) /\ Acyclic(Scope)) =>
        \A a \in NameSet(Scope) : \A u \in DepsIn(Scope, a) :
            /\ Present(Order, a)
            /\ Present(Order, u)
            /\ Before(Order, u, a)

\* C1, amended: in the order returned for an acyclic scope with unique names,
\* every activity A that is placed comes after every activity U of the scope
\* it depends on, and U is placed; when no dependsOn entry of the scope names a
\* missing activity, every such A is placed.
C1_OrderingValidity ==
    (Resolved /\ UniqueNames(Scope) /\ Acyclic(Scope)) =>
        \A a \in NameSet(Scope) : \A u \in DepsIn(Scope, a) :
            /\ Present(Order, a) => (Present(Order, u) /\ Before(Order, u, a) /\ u # a)
            /\ NoDangling(Scope) => Present(Order, a)

\* an acyclic scope of three activities is resolved in which the first
\* declared activity depends on the last declared one, and both are placed
C1_Witness ==
    /\ Resolved /\ UniqueNames(Scope) /\ Acyclic(Scope)
    /\ Len(Scope) = 3
    /\ NamesOf(Scope)[3] \in DepsIn(Scope, NamesOf(Scope)[1])
    /\ Present(Order, NamesOf(Scope)[1])
    /\ Order[1] # NamesOf(Scope)[1]

\* the returned order holds exactly the names of the scope, each once
IsPermutation(out, names) ==
    /\ Len(out) = Len(names)
    /\ Range(out) = Range(names)

\* C2 as stated: the order returned for an acyclic scope is a permutation of
\* the names of the scope.
C2_Original ==
    (Resolved /\ UniqueNames(Scope) /\ Acyclic(Scope)) =>
        IsPermutation(Order, NamesOf(Scope))

\* C2, amended: the order returned for an acyclic scope in which every
\* dependsOn entry names an activity of the scope is a permutation of the
\* names of the scope.
C2_Completeness ==
    (Resolved /\ UniqueNames(Scope) /\ Acyclic(Scope) /\ NoDangling(Scope)) =>
        IsPermutation(Order, NamesOf(Scope))

\* an acyclic scope of three activities with two dependencies and no missing
\* name is resolved into an order other than the declared one
C2_Witness ==
    /\ Resolved /\ UniqueNames(Scope) /\ Acyclic(Scope) /\ NoDangling(Scope)
    /\ Len(Scope) = 3
    /\ Len(Edges(Scope)) >= 2
    /\ Order # NamesOf(Scope)
    /\ Len(Order) = 3

\* the activities on some cycle of the scope
CycleMembers(scope) == {n \in NameSet(scope) : OnCycle(scope, n)}

\* out restricted to the names of X, order kept
Restrict(out, X) == SelectSeq(out, LAMBDA n : n \in X)

\* C3 as stated, for a scope whose only defect is the cycle C (no missing
\* name, no cycle outside C): every activity outside C is placed, in the
\* relative order of the run on the scope without C.
C3_Original ==
    (Resolved /\ UniqueNames(Scope) /\ NoDangling(Scope)) =>
        \A C \in SUBSET NameSet(Scope) :
            (IsCycle(Scope, C) /\ CycleMembers(Scope) \subseteq C) =>
                LET outside == NameSet(Scope) \ C
                IN  /\ \A n \in outside : Present(Order, n)
                    /\ Restrict(Order, outside) =
                           Restrict(topological_sort(Remove(Scope, C)), outside)

\* C3, amended: for every cycle C of a scope, the order returned for the
\* scope is the order returned for the scope without the activities of C; when
\* the cycle is the only defect of the scope, the activities placed are those
\* outside C that do not depend, directly or transitively, on an activity of C.
C3_CycleContainment ==
    (Resolved /\ UniqueNames(Scope)) =>
        \A C \in SUBSET NameSet(Scope) :
            IsCycle(Scope, C) =>
                /\ Order = topological_sort(Remove(Scope, C))
                /\ (NoDangling(Scope) /\ CycleMembers(Scope) \subseteq C) =>
                       Range(Order) =
                           {n \in NameSet(Scope) \ C : Ancestors(Scope, n) \cap C = {}}

\* a scope is resolved that holds a cycle of two activities and a third
\* activity that depends on one of them
C3_Witness ==
    /\ Resolved /\ UniqueNames(Scope) /\ NoDangling(Scope)
    /\ \E C \in SUBSET NameSet(Scope) :
          /\ IsCycle(Scope, C)
          /\ Cardinality(C) = 2
          /\ \E n \in NameSet(Scope) \ C : DepsIn(Scope, n) \cap C # {}

\* the activities that neither have a dependsOn entry naming a missing
\* activity, nor are on a cycle, nor depend on such an activity
Unaffected(scope) ==
    {n \in NameSet(scope) :
        \A m \in {n} \cup Ancestors(scope, n) :
            ~IsDangling(scope, m) /\ ~OnCycle(scope, m)}

ReadyAfter(scope, placed, n) ==
    SelectSeq(NamesOf(scope),
              LAMBDA a : n \in DepSet(scope, a) /\ DepSet(scope, a) \subseteq placed \cup {n})

RECURSIVE FifoOrder(_, _, _)
FifoOrder(scope, queue, placed) ==
    IF queue = <<>> THEN placed
    ELSE FifoOrder(scope,
                   Tail(queue) \o ReadyAfter(scope, Range(placed), Head(queue)),
                   Append(placed, Head(queue)))

Scenario == <<Leaf("C", <<"A">>), Leaf("A", <<>>), Leaf("B", <<"A">>)>>

\* C5: the returned order is the pop order of that FIFO queue; the scope
\* [C dependsOn A, A, B dependsOn A] resolves to [A, C, B].
C5_FifoTieBreak ==
    (Resolved /\ UniqueNames(Scope)) =>
        /\ Order = FifoOrder(Scope,
                             SelectSeq(NamesOf(Scope), LAMBDA a : DepSet(Scope, a) = {}),
                             <<>>)
        /\ Scope = Scenario => Order = <<"A", "C", "B">>

\* the scenario scope has been resolved
C5_Witness == Resolved /\ Scope = Scenario /\ Len(Order) = 3

-----------------------------------------------------------------------------
(* Claims about the renderer.  RefRender is the report the design describes: *)
(* the sections of the activities of a scope in FIFO dependency order, each  *)
(* followed, for a container type, by the report of each nested scope.       *)

RecognizedContainer(K) ==
    GetOr(K, "type", None) \in {JStr("IfCondition"), JStr("ForEach"), JStr("Switch")}

\* the nested scopes of activity K, each with the label it is rendered under
RefNestedLists(K) ==
    LET tp == GetOr(K, "typeProperties", None)
        One(key, label) ==
            IF Has(tp, key) THEN << <<(<<label>>), Get(tp, key).items>> >> ELSE <<>>
        cases == IF Has(tp, "cases") THEN Get(tp, "cases").items ELSE <<>>
    IN  IF ~RecognizedContainer(K) \/ ~IsDict(tp) THEN <<>>
        ELSE One("ifTrueActivities", "<tr><td>If True Activities</td><td>")
             \o One("ifFalseActivities", "<tr><td>If False Activities</td><td>")
             \o One("activities", "<tr><td>Activities</td><td>")
             \o [m \in 1..Len(cases) |->
                    << <<"<tr><td>Case: ", Text(GetOr(cases[m], "value", None)),
                         "</td><td>">>,
                       GetOr(cases[m], "activities", JList(<<>>)).items >>]

\* the activities of a scope in FIFO dependency order
RefResolve(scope) ==
    LET names == FifoOrder(scope,
                           SelectSeq(NamesOf(scope), LAMBDA a : DepSet(scope, a) = {}),
                           <<>>)
    IN  [k \in 1..Len(names) |->
            scope[CHOOSE i \in 1..Len(scope) : NamesOf(scope)[i] = names[k]]]

RECURSIVE RefRender(_)

\* what follows the rows of K: the report of each of its nested scopes
RefNested(K) ==
    LET nested == RefNestedLists(K)
    IN  Flatten([m \in 1..Len(nested) |->
                    nested[m][1] \o RefRender(nested[m][2]) \o <<"</td></tr>">>])

RefSection(K) == ActivityHtml(K) \o RefNested(K) \o <<"</table></details>">>

RefRender(scope) ==
    LET order == RefResolve(scope)
    IN  Flatten([k \in 1..Len(order) |-> RefSection(order[k])])

\* the top call is about to return
Returning == stack # <<>> /\ Top.pc = "for" /\ Top.i > Len(Top.sorted_activities)

\* the call has returned to the caller of the outermost generate_activity_html
Returned == stack = <<>> /\ error = "none"

\* sub occurs in seq as a contiguous piece
Occurs(sub, seq) ==
    \E off \in 0..(Len(seq) - Len(sub)) : SubSeq(seq, off + 1, off + Len(sub)) = sub

\* C6 as stated, for a root scope whose only defect is a cycle: the report
\* holds, for every container activity of the scope, the report of each of its
\* nested scopes.
C6_Original ==
    (Returned /\ UniqueNames(doc) /\ NoDangling(doc) /\ ~Acyclic(doc)) =>
        \A i \in 1..Len(doc) :
            LET nested == RefNestedLists(doc[i])
            IN  \A m \in 1..Len(nested) :
                    Occurs(nested[m][1] \o RefRender(nested[m][2]) \o <<"</td></tr>">>,
                           result)

\* C6, amended: what a call of the renderer returns is the report of its own
\* activity list alone, whatever cycles the enclosing and the sibling scopes
\* hold: the nested scopes of the containers that are in the resolved order of
\* a scope S with a cycle are rendered as they would be without the cycle, and
\* those of the containers the cycle drops from the order of S are not
\* rendered.
C6_CycleIsolation ==
    /\ Returning => Top.html_content = RefRender(Top.activities)
    /\ error # "KeyError"

\* a nested scope returns its report while the enclosing scope holds a cycle
\* and the container holding it was placed
C6_Witness ==
    /\ Returning
    /\ Len(stack) = 2
    /\ ~Acyclic(stack[1].activities)
    /\ Len(Top.sorted_activities) = 2

\* C7: generate_activity_html raises no error, whichever optional fields the
\* named activities of the document lack and whatever their types.
C7_NoError ==
    (\A i \in 1..Len(doc) : Has(doc[i], "name")) => error = "none"

\* C8: when the for loop leaves an activity, what it has appended for it is
\* its rows followed by the report of each nested list of its typeProperties
\* if its type is IfCondition, ForEach or Switch, and by nothing otherwise; a
\* nested call is only ever made for a nested list of such an activity.
C8_RecursionIffContainer ==
    /\ (stack # <<>> /\ Top.pc = "close") =>
           Top.html_content =
               Flatten([k \in 1..(Top.i - 1) |-> RefSection(Top.sorted_activities[k])])
               \o ActivityHtml(Current) \o RefNested(Current)
    /\ \A k \in 2..Len(stack) :
           LET caller == stack[k - 1]
               K == caller.sorted_activities[caller.i]
           IN  /\ RecognizedContainer(K)
               /\ \E m \in 1..Len(RefNestedLists(K)) :
                      RefNestedLists(K)[m][2] = stack[k].activities

\* the for loop leaves an activity of another type whose typeProperties holds
\* a nested list, having rendered a container before it
C8_Witness ==
    /\ stack # <<>> /\ Top.pc = "close"
    /\ ~RecognizedContainer(Current)
    /\ Has(Current, "typeProperties")
    /\ Has(Get(Current, "typeProperties"), "ifTrueActivities")
    /\ Len(stack) = 2

\* the scalars a value tree holds
RECURSIVE ScalarLeaves(_)
ScalarLeaves(v) ==
    IF IsDict(v) \/ IsList(v)
    THEN UNION {ScalarLeaves(v.items[i]) : i \in 1..Len(v.items)}
    ELSE {v}

\* C9: the view of the typeProperties of a rendered activity holds the textual
\* representation of every scalar of the tree, the elements of sequences
\* included.
C9_ScalarsRendered ==
    (stack # <<>> /\ Top.pc \in {"ifTrue", "close"} /\ Truthy(CurrentTypeProperties)) =>
        \A v \in ScalarLeaves(CurrentTypeProperties) :
            Text(v) \in Range(convert_to_nested_table_html(CurrentTypeProperties))

\* how deep the recognized containers of a scope nest
RECURSIVE NestingDepth(_)
NestingDepth(scope) ==
    LET Below(K) == {NestingDepth(RefNestedLists(K)[m][2]) : m \in 1..Len(RefNestedLists(K))}
        depths == UNION {{1 + d : d \in Below(scope[i])} : i \in 1..Len(scope)}
    IN  IF depths = {} THEN 0 ELSE CHOOSE d \in depths : \A e \in depths : e <= d

\* the call stack is never deeper than the document nests
DepthBounded == Len(stack) <= 1 + NestingDepth(doc)

\* the run has stopped: no call is left on the stack
Stopped == stack = <<>>

\* every run ends, by a return or by an exception
Halts == <>Stopped

\* C10: the call stack is never deeper than the document nests, and a run
\* only stops when the outermost call has returned.
C10_Termination == DepthBounded /\ (Stopped => Returned)

-----------------------------------------------------------------------------
(* C11: the counters and the queue of the resolver loop *)

\* every name that was put on the queue so far: those already emitted, then
\* those still waiting (popleft moves a name from the one to the other)
Enqueued == ts.sorted_activities \o ts.queue

NoRepeat(s) == \A i, k \in 1..Len(s) : s[i] = s[k] => i = k

\* the activity called n has the same name twice in its dependsOn
RepeatedEntry(S, n) ==
    \E i \in 1..Len(S) : NamesOf(S)[i] = n /\ ~NoRepeat(DepSeq(S[i]))

\* C11: at every step of the resolver on a scope with unique names, acyclic or
\* not, with dangling or repeated dependsOn entries, every in-degree counter
\* is >= 0, no name was enqueued twice, no name occurs twice in the output,
\* and every emitted name is a name of the scope.
C11_LoopInvariant ==
    UniqueNames(Scope) =>
        /\ \A n \in DOMAIN ts.in_degree : ts.in_degree[n] >= 0
        /\ NoRepeat(Enqueued)
        /\ NoRepeat(Order)
        /\ Range(Order) \subseteq NameSet(Scope)

\* the loop is between two decrements for an activity with a repeated
\* dependsOn entry: its counter was lowered once and is still positive, while
\* another activity of the scope can never be placed
C11_Witness ==
    /\ ts.pc = "relax" /\ UniqueNames(Scope)
    /\ ts.j = 2 /\ Len(ts.graph[ts.node]) >= 2
    /\ \E a \in NameSet(Scope) :
          /\ RepeatedEntry(Scope, a)
          /\ ts.graph[ts.node][1] = a
          /\ ts.graph[ts.node][2] = a
          /\ ts.in_degree[a] = 1
    /\ ~(Acyclic(Scope) /\ NoDangling(Scope))

=============================================================================
